---------------------------- MODULE Spec2Model ----------------------------
(***************************************************************************)
(* Model of alerts/actions/triage_bot.py: the alert action `message`       *)
(* (session controller), try_make_outbound (classifier), the four          *)
(* _make_* extraction functions, primary_username (directory lookup) and   *)
(* _dispatcher.dispatch.                                                   *)
(*                                                                         *)
(* Encoding of Python values                                               *)
(*   - an optional dict key is a sequence of length 0 (key absent) or 1    *)
(*     (key present, the element is the value): d.get(k, dflt) is          *)
(*     Get(d.k, dflt) and d[k] raises KeyError when d.k = <<>>;            *)
(*   - Python None is the value None below;                                *)
(*   - the free text `summary` is a sequence of space-free chunks and      *)
(*     single spaces (SP), so that split(' ') and the substring test are   *)
(*     computed on it and not assumed;                                     *)
(*   - an exception is an outcome of kind "raise" carrying its class.      *)
(*                                                                         *)
(* Two statement-level defects of the file are noted here and the model    *)
(* follows the statements' evident meaning: the call at line 147 passes    *)
(* one argument to try_make_outbound, whose signature (lines 180-183)      *)
(* takes the token as second parameter; the model binds that parameter to  *)
(* self._person_api_session, the only token in scope.  The string literal  *)
(* of lines 440-441 is broken over two lines; the model reads it as the    *)
(* single template it spells.                                              *)
(***************************************************************************)
EXTENDS Integers, Sequences, FiniteSets, TLC

VARIABLES
    inst,                 \* "none" | "live" | "failed": message.__init__ not run / returned / raised
    person_api_session,   \* self._person_api_session: <<>> (None) or <<n>>, the n-th token issued
    last_authenticated,   \* self._last_authenticated, in minutes of the clock
    test_flag,            \* self._test_flag
    now,                  \* datetime.now(), in minutes
    issued,               \* number of tokens the OAuth endpoint has issued
    pc,                   \* position of the current onMessage invocation
    message,              \* the inbound message of the current invocation: <<>> or <<alert>>
    request,              \* local `request` of onMessage: outcome of try_make_outbound
    check_time,           \* the datetime.now() read at line 150
    should_refresh,       \* local `should_refresh`
    auth_calls,           \* calls of authenticate made by the current constructor/invocation
    auth_failed,          \* some authenticate call of the current constructor/invocation returned None
    invoke_calls,         \* calls of lambda_.invoke made by the current invocation
    dir_calls,            \* directory lookups of the current invocation, each with the session at that moment
    entry_session,        \* the session state when the current invocation began
    response,             \* what lambda_.invoke did: <<>> or <<outcome>>
    dispatch_result,      \* what dispatch returned: <<>> or <<DispatchResult>>
    returned,             \* what onMessage returned: <<>> or <<alert>>
    raised                \* the exception that left onMessage or __init__: "" or its class

vars == <<inst, person_api_session, last_authenticated, test_flag, now, issued, pc,
          message, request, check_time, should_refresh, auth_calls, auth_failed,
          invoke_calls, dir_calls, entry_session, response, dispatch_result,
          returned, raised>>

-----------------------------------------------------------------------------
(* Python values *)

None == "<None>"
Get(opt, dflt) == IF opt = <<>> THEN dflt ELSE opt[1]
Some(x) == <<x>>

TOKEN_VALIDITY_WINDOW_MINUTES == 18 * 60

\* AlertLabel
SENSITIVE_HOST_SESSION == "sensitive_host_session"
DUO_BYPASS_CODES_USED == "duo_bypass_codes_used"
DUO_BYPASS_CODES_GENERATED == "duo_bypass_codes_generated"
SSH_ACCESS_SIGN_RELENG == "ssh_access_sign_releng"
AlertLabel == {SENSITIVE_HOST_SESSION, DUO_BYPASS_CODES_USED,
               DUO_BYPASS_CODES_GENERATED, SSH_ACCESS_SIGN_RELENG}

\* DispatchResult
SUCCESS == "success"
FAILURE == "failure"
INDETERMINATE == "indeterminate"

\* AlertTriageRequest(identifier, alert, summary, user), as the outcome of a
\* function that may also return None or raise; `calls` are the directory
\* lookups the function made on the way, each with the token it passed.
AlertTriageRequest(identifier, label, summary, user, calls) ==
    [kind |-> "request", identifier |-> identifier, alert |-> label,
     summary |-> summary, user |-> user, calls |-> calls]
ReturnNone(calls) == [kind |-> "none", calls |-> calls]
Raise(exc, calls) == [kind |-> "raise", exc |-> exc, calls |-> calls]

-----------------------------------------------------------------------------
(* Text: str.split(' ')[-1], `needle in text`, str.format *)

SP == " "

\* text.split(' ')[-1]: what follows the last space (the whole text if none).
RECURSIVE LastToken(_)
LastToken(text) ==
    IF text = <<>> THEN <<>>
    ELSE IF text[Len(text)] = SP THEN <<>>
    ELSE Append(LastToken(SubSeq(text, 1, Len(text) - 1)), text[Len(text)])

\* needle in text
Contains(text, needle) ==
    \E i \in 0..(Len(text) - Len(needle)) :
        SubSeq(text, i + 1, i + Len(needle)) = needle

CODES_GENERATED == <<"codes", SP, "generated">>

\* '...{}...'.format(x): str(None) is 'None'
Str(x) == IF x = None THEN "None" ELSE x
Format(before, x, after) == <<before, Str(x), after>>

-----------------------------------------------------------------------------
(* primary_username: the Person API's answer is the environment's; the     *)
(* function turns it into a User or None.                                  *)

User(primary_email, ldap_email) ==
    [primary_email |-> primary_email, mozilla_ldap_primary_email |-> ldap_email]

\* resp.transport: "ok" | "error" (requests raised RequestException)
\* resp.created:   the data.created.value string parses with the ISO format or not
\* resp.ldap:      data.identities.mozilla_ldap_primary_email.value, optional key
\* resp.primary:   data.primary_email.value, optional key
primary_username(resp) ==
    IF resp.transport = "error" THEN <<>>
    ELSE IF ~resp.created THEN <<>>
    ELSE IF Get(resp.ldap, None) = None THEN <<>>
    ELSE Some(User(Get(resp.primary, "N/A"), Get(resp.ldap, None)))


-----------------------------------------------------------------------------
(* Alerts.  An event record is event['documentsource'] with its 'details'   *)
(* and 'hostname'; every key may be absent.                                *)

Details(username, object, hostname) ==
    [username |-> username, object |-> object, hostname |-> hostname]
Event(details, hostname) ==
    [documentsource |-> Some([details |-> details, hostname |-> hostname])]
Source(category, tags, summary, events) ==
    [category |-> category, tags |-> tags, summary |-> summary, events |-> events]
Alert(id, source) == [id |-> id, source |-> source]

\* {}: the default of message.get('_source', {})
EmptySource == Source(<<>>, <<>>, <<>>, <<>>)

\* The `null` records of the four extraction functions.
null_sensitive_host_access == Event(Some(Details(Some(None), <<>>, <<>>)), Some(None))
null_duo_code_gen == Event(Some(Details(<<>>, Some(None), <<>>)), <<>>)
null_duo_code_used == Event(Some(Details(<<>>, Some(None), <<>>)), <<>>)
null_ssh_access_releng == Event(Some(Details(<<>>, <<>>, Some(None))), <<>>)

\* _events[0]['documentsource']['details'][key] and
\* _events[0]['documentsource'][key]: the value, or the exception the
\* subscript chain raises.
Value(v) == [ok |-> TRUE, v |-> v, exc |-> ""]
Fails(exc) == [ok |-> FALSE, v |-> None, exc |-> exc]

DocumentSourceOf(events) ==
    IF events = <<>> THEN Fails("IndexError")
    ELSE IF events[1].documentsource = <<>> THEN Fails("KeyError")
    ELSE Value(events[1].documentsource[1])

DetailsField(events, key) ==
    LET ds == DocumentSourceOf(events) IN
    IF ~ds.ok THEN ds
    ELSE IF ds.v.details = <<>> THEN Fails("KeyError")
    ELSE IF ds.v.details[1][key] = <<>> THEN Fails("KeyError")
    ELSE Value(ds.v.details[1][key][1])

DocumentSourceField(events, key) ==
    LET ds == DocumentSourceOf(events) IN
    IF ~ds.ok THEN ds
    ELSE IF ds.v[key] = <<>> THEN Fails("KeyError")
    ELSE Value(ds.v[key][1])

\* AlertTriageRequest(a['_id'], ...): the subscript raises KeyError.
MakeRequest(a, label, summary, user, calls) ==
    IF a.id = <<>> THEN Raise("KeyError", calls)
    ELSE AlertTriageRequest(a.id[1], label, summary, user, calls)

DirectoryCall(tkn, uname) == [tkn |-> tkn, uname |-> uname]

SENSITIVE_HOST_TEXT == "An SSH session to a potentially sensitive host "
SENSITIVE_HOST_TAIL == " was made by your user account."
SSH_ACCESS_TEXT == "An SSH session was established to host "
SSH_ACCESS_TAIL == " by your user account."
\* Adjacent literals on the following lines are separate expression
\* statements: only the first literal is the summary.
DUO_CODE_GEN_TEXT == "DUO bypass codes have been generated for your account. "
DUO_CODE_USED_TEXT == "DUO bypass codes belonging to your account have been used to "

make_sensitive_host_access(a, tkn, resp) ==
    LET _source == Get(a.source, EmptySource)
        _events == Get(_source.events, <<null_sensitive_host_access>>)
        user == DetailsField(_events, "username")
        host == DocumentSourceField(_events, "hostname")
        calls == <<DirectoryCall(tkn, user.v)>>
        profile == primary_username(resp)
    IN  IF ~user.ok THEN Raise(user.exc, <<>>)
        ELSE IF ~host.ok THEN Raise(host.exc, <<>>)
        ELSE IF user.v = None \/ user.v = "" THEN ReturnNone(<<>>)
        ELSE IF profile = <<>> THEN ReturnNone(calls)
        ELSE MakeRequest(a, SENSITIVE_HOST_SESSION,
                         Format(SENSITIVE_HOST_TEXT, host.v, SENSITIVE_HOST_TAIL),
                         profile[1].primary_email, calls)

make_duo_code_gen(alert, tkn, resp) ==
    LET _source == Get(alert.source, EmptySource)
        _events == Get(_source.events, <<null_duo_code_gen>>)
        email == DetailsField(_events, "object")
    IN  IF ~email.ok THEN Raise(email.exc, <<>>)
        ELSE IF email.v = None \/ email.v = "" THEN ReturnNone(<<>>)
        ELSE MakeRequest(alert, DUO_BYPASS_CODES_GENERATED,
                         <<DUO_CODE_GEN_TEXT>>, email.v, <<>>)

make_duo_code_used(alert, tkn, resp) ==
    LET _source == Get(alert.source, EmptySource)
        _events == Get(_source.events, <<null_duo_code_used>>)
        email == DetailsField(_events, "object")
    IN  IF ~email.ok THEN Raise(email.exc, <<>>)
        ELSE IF email.v = None \/ email.v = "" THEN ReturnNone(<<>>)
        ELSE MakeRequest(alert, DUO_BYPASS_CODES_USED,
                         <<DUO_CODE_USED_TEXT>>, email.v, <<>>)

make_ssh_access_releng(alert, tkn, resp) ==
    LET _source == Get(alert.source, EmptySource)
        _events == Get(_source.events, <<null_ssh_access_releng>>)
        user == LastToken(Get(_source.summary, <<>>))
        host == DetailsField(_events, "hostname")
        calls == <<DirectoryCall(tkn, user)>>
        profile == primary_username(resp)
    IN  IF ~host.ok THEN Raise(host.exc, <<>>)
        ELSE IF user = <<>> \/ host.v = None \/ host.v = "" THEN ReturnNone(<<>>)
        ELSE IF profile = <<>> THEN ReturnNone(calls)
        ELSE MakeRequest(alert, SSH_ACCESS_SIGN_RELENG,
                         Format(SSH_ACCESS_TEXT, host.v, SSH_ACCESS_TAIL),
                         profile[1].primary_email, calls)

-----------------------------------------------------------------------------
(* try_make_outbound *)

is_sensitive_host_access(_source) ==
    "session" \in Get(_source.tags, {}) /\ _source.category = Some("session")

is_duo_codes_generated(_source) ==
    /\ "duosecurity" \in Get(_source.tags, {})
    /\ _source.category = Some("duo")
    /\ Contains(Get(_source.summary, <<>>), CODES_GENERATED)

is_duo_bypass_codes_used(_source) ==
    "duo_bypass_codes_used" \in Get(_source.tags, {}) /\ _source.category = Some("bypassused")

is_ssh_access_releng(_source) ==
    "ssh" \in Get(_source.tags, {}) /\ _source.category = Some("access")

\* Mutant: the two duo shapes hand the alert to each other's extraction.
try_make_outbound_crossed(msg, oauth_tkn, resp) ==
    LET _source == Get(msg.source, EmptySource) IN
    IF is_sensitive_host_access(_source) THEN make_sensitive_host_access(msg, oauth_tkn, resp)
    ELSE IF is_duo_codes_generated(_source) THEN make_duo_code_used(msg, oauth_tkn, resp)
    ELSE IF is_duo_bypass_codes_used(_source) THEN make_duo_code_gen(msg, oauth_tkn, resp)
    ELSE IF is_ssh_access_releng(_source) THEN make_ssh_access_releng(msg, oauth_tkn, resp)
    ELSE ReturnNone(<<>>)

try_make_outbound(msg, oauth_tkn, resp) ==
    LET _source == Get(msg.source, EmptySource) IN
    IF is_sensitive_host_access(_source) THEN make_sensitive_host_access(msg, oauth_tkn, resp)
    ELSE IF is_duo_codes_generated(_source) THEN make_duo_code_gen(msg, oauth_tkn, resp)
    ELSE IF is_duo_bypass_codes_used(_source) THEN make_duo_code_used(msg, oauth_tkn, resp)
    ELSE IF is_ssh_access_releng(_source) THEN make_ssh_access_releng(msg, oauth_tkn, resp)
    ELSE ReturnNone(<<>>)

-----------------------------------------------------------------------------
(* authenticate and dispatch: what the remote end did is the environment's *)

\* authenticate: the access_token of the reply, None when the reply has no
\* such field or the request raised.  A fresh token is the next one issued.
authenticate(reply, n) ==
    IF reply = "token" THEN Some(n + 1) ELSE <<>>

AuthReplies == {"token", "no_access_token", "exception"}

\* dispatch, lines 298-304: the status it goes on with.
StatusOf(outcome) ==
    IF outcome.kind = "exception" THEN 500
    ELSE IF outcome.kind = "no_status_code" THEN 400
    ELSE outcome.code

\* dispatch, lines 306-311.
ResultOfStatus(status) ==
    IF status >= 400 THEN FAILURE
    ELSE IF status < 300 THEN SUCCESS
    ELSE INDETERMINATE

dispatch(outcome) == ResultOfStatus(StatusOf(outcome))

\* Mutant: a dispatch that did not succeed is attempted again.
AfterDispatchRetry(result) == IF result = SUCCESS THEN "return" ELSE "dispatch"

\* onMessage, lines 175-177: after the one call of dispatch, its result is
\* dropped and the function goes on to return.
AfterDispatch(result) == "return"

\* Mutant: the window is taken one minute longer than it is.
ShouldRefreshLate(t, last) == t - last > TOKEN_VALIDITY_WINDOW_MINUTES + 1

\* Mutant: the refresh is not gated on having a request.
RefreshGuardUngated(have_request, refresh) == refresh

\* onMessage, lines 150-154 and 156.
ShouldRefresh(t, last) == t - last > TOKEN_VALIDITY_WINDOW_MINUTES
RefreshGuard(have_request, refresh) == have_request /\ refresh

\* Mutant: a missing token is not checked.
AuthFailureIgnored(session) == FALSE

\* __init__ lines 133-134 and onMessage lines 165-166.
AuthFailureRaised(session) == session = <<>>

-----------------------------------------------------------------------------
(* Inputs *)

\* The clock is followed for MaxWindows validity windows.
MaxWindows == 2
MaxNow == MaxWindows * (TOKEN_VALIDITY_WINDOW_MINUTES + 1)
TickSteps == {TOKEN_VALIDITY_WINDOW_MINUTES, TOKEN_VALIDITY_WINDOW_MINUTES + 1}

Statuses == {199, 200, 204, 299, 300, 301, 399, 400, 404}
InvokeOutcomes ==
    {[kind |-> "status", code |-> c] : c \in Statuses}
    \cup {[kind |-> "no_status_code", code |-> 0], [kind |-> "exception", code |-> 0]}

DirResponses ==
    {[transport |-> "ok", created |-> TRUE, ldap |-> Some("jdoe@mozilla.com"),
      primary |-> Some("jdoe@example.com")],
     [transport |-> "ok", created |-> TRUE, ldap |-> Some("jdoe@mozilla.com"),
      primary |-> <<>>],
     [transport |-> "ok", created |-> TRUE, ldap |-> <<>>,
      primary |-> Some("jdoe@example.com")],
     [transport |-> "ok", created |-> FALSE, ldap |-> Some("jdoe@mozilla.com"),
      primary |-> Some("jdoe@example.com")],
     [transport |-> "error", created |-> FALSE, ldap |-> <<>>, primary |-> <<>>]}

TagNames == {"session", "duosecurity", "duo_bypass_codes_used", "ssh"}
Ids == {<<>>, Some(""), Some("a1")}
Categories == {<<>>} \cup {Some(c) : c \in {"session", "duo", "bypassused", "access"}}
TagSets == {<<>>, Some({}), Some(TagNames)} \cup {Some({t}) : t \in TagNames}
Summaries ==
    {<<>>, Some(<<>>), Some(<<"jdoe", SP>>),
     Some(<<"ssh", SP, "jdoe">>), Some(CODES_GENERATED),
     Some(<<"codes", "generated">>),
     Some(<<"codes", SP, "generated", SP, "jdoe">>)}
Leaves(v) == {<<>>, Some(None), Some(""), Some(v)}
EventRecords ==
    {[documentsource |-> <<>>]}
    \cup {Event(<<>>, h) : h \in {<<>>, Some("corp-host")}}
    \cup {Event(Some(Details(u, o, dh)), h) :
            u \in Leaves("jdoe"), o \in Leaves("jdoe@example.com"),
            dh \in Leaves("host1"), h \in {<<>>, Some("corp-host")}}
EventLists == {<<>>, Some(<<>>)} \cup {Some(<<e>>) : e \in EventRecords}
Alerts ==
    {Alert(i, <<>>) : i \in Ids}
    \cup {Alert(i, Some(Source(c, t, s, e))) :
            i \in Ids, c \in Categories, t \in TagSets, s \in Summaries, e \in EventLists}

\* The messages the session controller is driven with: one well-formed alert
\* of each shape, misses, and alerts whose extraction raises.
GoodEvent == Event(Some(Details(Some("jdoe"), Some("jdoe@example.com"), Some("host1"))),
                   Some("corp-host"))
SessionAlerts ==
    {Alert(Some("a1"), Some(Source(Some("session"), Some({"session"}), <<>>, Some(<<GoodEvent>>)))),
     Alert(Some("a1"), Some(Source(Some("duo"), Some({"duosecurity"}), Some(CODES_GENERATED),
                                   Some(<<GoodEvent>>)))),
     Alert(Some("a1"), Some(Source(Some("bypassused"), Some({"duo_bypass_codes_used"}), <<>>,
                                   Some(<<GoodEvent>>)))),
     Alert(Some("a1"), Some(Source(Some("access"), Some({"ssh"}), Some(<<"ssh", SP, "jdoe">>),
                                   Some(<<GoodEvent>>)))),
     Alert(Some("a1"), Some(Source(Some("session"), Some({"session"}), <<>>, <<>>))),
     Alert(Some("a1"), Some(Source(Some("session"), Some({"session"}), <<>>, Some(<<>>)))),
     Alert(Some("a1"), <<>>)}

-----------------------------------------------------------------------------
(* The session controller: message.__init__ and message.onMessage *)

Session == [token |-> person_api_session, last |-> last_authenticated]

Init ==
    /\ inst = "none"
    /\ person_api_session = <<>>
    /\ last_authenticated = 0
    /\ test_flag = FALSE
    /\ now = 0
    /\ issued = 0
    /\ pc = "idle"
    /\ message = <<>>
    /\ request = ReturnNone(<<>>)
    /\ check_time = 0
    /\ should_refresh = FALSE
    /\ auth_calls = 0
    /\ auth_failed = FALSE
    /\ invoke_calls = 0
    /\ dir_calls = <<>>
    /\ entry_session = [token |-> <<>>, last |-> 0]
    /\ response = <<>>
    /\ dispatch_result = <<>>
    /\ returned = <<>>
    /\ raised = ""

\* The clock moves on, between and during invocations.
Tick ==
    \E d \in TickSteps :
        /\ now + d <= MaxNow
        /\ now' = now + d
        /\ UNCHANGED <<inst, person_api_session, last_authenticated, test_flag, issued, pc,
                       message, request, check_time, should_refresh, auth_calls, auth_failed,
                       invoke_calls, dir_calls, entry_session, response, dispatch_result,
                       returned, raised>>

\* message.__init__, lines 111-139.
Construct ==
    \E reply \in AuthReplies :
        LET session == authenticate(reply, issued) IN
        /\ inst = "none"
        /\ person_api_session' = session
        /\ auth_calls' = 1
        /\ issued' = IF session = <<>> THEN issued ELSE issued + 1
        /\ auth_failed' = (session = <<>>)
        /\ IF AuthFailureRaised(session)
           THEN /\ raised' = "AuthFailure"
                /\ inst' = "failed"
                /\ UNCHANGED last_authenticated
           ELSE /\ raised' = ""
                /\ inst' = "live"
                /\ last_authenticated' = now
        /\ UNCHANGED <<test_flag, now, pc, message, request, check_time, should_refresh,
                       invoke_calls, dir_calls, entry_session, response, dispatch_result,
                       returned>>

\* The session as it is at the moment of a directory lookup.
LookupRecord(call, auths) ==
    [tkn |-> call.tkn, at |-> now, last_authenticated |-> last_authenticated,
     auth_calls |-> auths]

\* onMessage, lines 142-147: a new invocation begins and classifies the message
\* with the stored token; an exception of the classifier leaves onMessage.
OnMessageClassify ==
    \E m \in SessionAlerts, resp \in DirResponses :
        LET result == try_make_outbound(m, person_api_session, resp) IN
        /\ inst = "live"
        /\ pc = "idle"
        /\ message' = Some(m)
        /\ entry_session' = Session
        /\ request' = result
        /\ dir_calls' = [i \in 1..Len(result.calls) |-> LookupRecord(result.calls[i], 0)]
        /\ auth_calls' = 0
        /\ auth_failed' = FALSE
        /\ invoke_calls' = 0
        /\ should_refresh' = FALSE
        /\ response' = <<>>
        /\ dispatch_result' = <<>>
        /\ returned' = <<>>
        /\ IF result.kind = "raise"
           THEN raised' = result.exc /\ pc' = "idle"
           ELSE raised' = "" /\ pc' = "refresh_check"
        /\ UNCHANGED <<inst, person_api_session, last_authenticated, test_flag, now, issued,
                       check_time>>

\* onMessage, lines 149-156.
RefreshCheck ==
    LET have_request == request.kind = "request"
        refresh == ShouldRefresh(now, last_authenticated)
    IN  /\ pc = "refresh_check"
        /\ check_time' = now
        /\ should_refresh' = refresh
        /\ pc' = IF RefreshGuard(have_request, refresh) THEN "authenticate" ELSE "dispatch"
        /\ UNCHANGED <<inst, person_api_session, last_authenticated, test_flag, now, issued,
                       message, request, auth_calls, auth_failed, invoke_calls, dir_calls,
                       entry_session, response, dispatch_result, returned, raised>>

\* onMessage, lines 157-168.
Refresh ==
    \E reply \in AuthReplies :
        LET session == authenticate(reply, issued) IN
        /\ pc = "authenticate"
        /\ person_api_session' = session
        /\ auth_calls' = auth_calls + 1
        /\ issued' = IF session = <<>> THEN issued ELSE issued + 1
        /\ auth_failed' = (auth_failed \/ session = <<>>)
        /\ IF AuthFailureRaised(session)
           THEN /\ raised' = "AuthFailure"
                /\ pc' = "idle"
                /\ UNCHANGED last_authenticated
           ELSE /\ pc' = "dispatch"
                /\ last_authenticated' = now
                /\ UNCHANGED raised
        /\ UNCHANGED <<inst, test_flag, now, message, request, check_time, should_refresh,
                       invoke_calls, dir_calls, entry_session, response, dispatch_result,
                       returned>>

\* onMessage, lines 170-175, with dispatch, lines 292-311.
Dispatch ==
    \E outcome \in InvokeOutcomes :
        LET have_request == request.kind = "request" IN
        /\ pc = "dispatch"
        /\ IF have_request
           THEN /\ test_flag' = TRUE
                /\ invoke_calls' = invoke_calls + 1
                /\ response' = Some(outcome)
                /\ dispatch_result' = Some(dispatch(outcome))
                /\ pc' = AfterDispatch(dispatch(outcome))
           ELSE /\ pc' = "return"
                /\ UNCHANGED <<test_flag, invoke_calls, response, dispatch_result>>
        /\ UNCHANGED <<inst, person_api_session, last_authenticated, now, issued, message,
                       request, check_time, should_refresh, auth_calls, auth_failed, dir_calls,
                       entry_session, returned, raised>>

\* onMessage, line 177.
Return ==
    /\ pc = "return"
    /\ returned' = message
    /\ pc' = "idle"
    /\ UNCHANGED <<inst, person_api_session, last_authenticated, test_flag, now, issued,
                   message, request, check_time, should_refresh, auth_calls, auth_failed,
                   invoke_calls, dir_calls, entry_session, response, dispatch_result, raised>>

Next ==
    \/ Tick
    \/ Construct
    \/ OnMessageClassify
    \/ RefreshCheck
    \/ Refresh
    \/ Dispatch
    \/ Return

Spec == Init /\ [][Next]_vars

-----------------------------------------------------------------------------
(* The classifier alone: try_make_outbound applied to every alert of Alerts *)

InitClassify ==
    /\ inst = "none"
    /\ person_api_session = Some(1)
    /\ last_authenticated = 0
    /\ test_flag = FALSE
    /\ now = 0
    /\ issued = 1
    /\ pc = "input"
    /\ message \in {Some(a) : a \in Alerts}
    /\ request = ReturnNone(<<>>)
    /\ check_time = 0
    /\ should_refresh = FALSE
    /\ auth_calls = 0
    /\ auth_failed = FALSE
    /\ invoke_calls = 0
    /\ dir_calls = <<>>
    /\ entry_session = [token |-> <<>>, last |-> 0]
    /\ response = <<>>
    /\ dispatch_result = <<>>
    /\ returned = <<>>
    /\ raised = ""

\* try_make_outbound(message, oauth_tkn), lines 180-214.
ClassifyAlert ==
    \E resp \in DirResponses :
        /\ pc = "input"
        /\ request' = try_make_outbound(message[1], person_api_session, resp)
        /\ pc' = "classified"
        /\ UNCHANGED <<inst, person_api_session, last_authenticated, test_flag, now, issued,
                       message, check_time, should_refresh, auth_calls, auth_failed,
                       invoke_calls, dir_calls, entry_session, response, dispatch_result,
                       returned, raised>>

NextClassify == ClassifyAlert

SpecClassify == InitClassify /\ [][NextClassify]_vars

-----------------------------------------------------------------------------
(* Properties of the session controller, checked under Spec *)

Finished == inst = "live" /\ pc = "idle" /\ message # <<>>
HaveRequest == request.kind = "request"

C2_ReturnsMessage ==
    (Finished /\ raised # "AuthFailure") => returned = message

\* C3: within one invocation the downstream target is invoked at most once,
\* only if classification produced a request, and a dispatch that ended in
\* failure or indeterminate is not attempted again.
C3_DispatchAtMostOnce ==
    /\ invoke_calls <= 1
    /\ invoke_calls > 0 => HaveRequest
    /\ (dispatch_result # <<>> /\ dispatch_result # Some(SUCCESS))
           => (invoke_calls = 1 /\ pc \in {"return", "idle"})

C3_Witness ==
    /\ Finished
    /\ returned = message
    /\ invoke_calls = 1
    /\ dispatch_result = Some(FAILURE)

\* C4: whenever authenticate returns no token an AuthFailure is raised; at
\* construction no instance comes to be, at a refresh the invocation is
\* aborted with no dispatch and no return; authenticate was called exactly
\* once.
C4_AuthFailureAborts ==
    /\ auth_failed =>
           /\ raised = "AuthFailure"
           /\ auth_calls = 1
           /\ person_api_session = <<>>
           /\ invoke_calls = 0
           /\ returned = <<>>
           /\ pc = "idle"
           /\ (message = <<>> => inst = "failed")
    /\ inst = "failed" => auth_failed
    /\ raised = "AuthFailure" => auth_failed

C4_Witness ==
    /\ inst = "live"
    /\ auth_failed
    /\ HaveRequest
    /\ raised = "AuthFailure"

\* C5: an invocation whose message produced no request never calls
\* authenticate and leaves the token and the last-authenticated timestamp as
\* they were when it began, also when the window has elapsed.
C5_MissLeavesSession ==
    (inst = "live" /\ message # <<>> /\ ~HaveRequest)
        => (auth_calls = 0 /\ Session = entry_session)

C5_Witness ==
    /\ Finished
    /\ request.kind = "none"
    /\ returned = message
    /\ should_refresh
    /\ check_time - last_authenticated > TOKEN_VALIDITY_WINDOW_MINUTES

\* C7: for an integer status code, dispatch returns success exactly for
\* 200 <= status < 300, failure exactly for status >= 400 and indeterminate
\* otherwise; an exception of the invocation gives failure.
C7_DispatchResultByStatus ==
    /\ (response # <<>> /\ response[1].kind = "status") =>
           LET status == response[1].code IN
           dispatch_result =
               Some(IF status >= 200 /\ status < 300 THEN SUCCESS
                    ELSE IF status >= 400 THEN FAILURE
                    ELSE INDETERMINATE)
    /\ (response # <<>> /\ response[1].kind = "exception") =>
           (dispatch_result = Some(FAILURE) /\ raised = "")

\* C10: a dispatch is attempted only while the stored token is non-null, is
\* the one the last successful authentication returned, and that
\* authentication lies no more than the validity window before the refresh
\* check of the same invocation.
C10_DispatchWithFreshToken ==
    invoke_calls > 0 =>
        /\ person_api_session # <<>>
        /\ person_api_session = Some(issued)
        /\ check_time - last_authenticated <= TOKEN_VALIDITY_WINDOW_MINUTES

C10_Witness ==
    /\ invoke_calls = 1
    /\ auth_calls = 1
    /\ entry_session.token = <<>>
    /\ person_api_session # <<>>

-----------------------------------------------------------------------------
(* Properties of the classifier, checked under SpecClassify *)

\* The table of shapes: required tag, required category, extra condition.
ShapeTable ==
    <<[tag |-> "session", category |-> "session", summary_has |-> <<>>],
      [tag |-> "duosecurity", category |-> "duo", summary_has |-> CODES_GENERATED],
      [tag |-> "duo_bypass_codes_used", category |-> "bypassused", summary_has |-> <<>>],
      [tag |-> "ssh", category |-> "access", summary_has |-> <<>>]>>

SourceOf(m) == IF m.source = <<>> THEN EmptySource ELSE m.source[1]

Satisfies(m, i) ==
    LET src == SourceOf(m) IN
    /\ src.tags # <<>>
    /\ ShapeTable[i].tag \in src.tags[1]
    /\ src.category = <<ShapeTable[i].category>>
    /\ ShapeTable[i].summary_has # <<>> =>
           (src.summary # <<>> /\ Contains(src.summary[1], ShapeTable[i].summary_has))

FirstSatisfied(m) ==
    IF \E i \in 1..4 : Satisfies(m, i)
    THEN CHOOSE i \in 1..4 : Satisfies(m, i) /\ \A j \in 1..(i - 1) : ~Satisfies(m, j)
    ELSE 0

ExtractionOf(i, m, tkn, resp) ==
    CASE i = 1 -> make_sensitive_host_access(m, tkn, resp)
      [] i = 2 -> make_duo_code_gen(m, tkn, resp)
      [] i = 3 -> make_duo_code_used(m, tkn, resp)
      [] i = 4 -> make_ssh_access_releng(m, tkn, resp)

Classified == pc = "classified"

\* C6: the result of classify is the result of the extraction function of the
\* first shape, in the order session, duo generated, duo used, ssh, whose
\* predicate the alert satisfies (none or an exception included, with no fall
\* through to a later shape), and none if it satisfies no predicate.
C6_FirstShapeDecides ==
    Classified =>
        LET m == message[1]
            first == FirstSatisfied(m)
        IN  IF first = 0 THEN request = ReturnNone(<<>>)
            ELSE \E resp \in DirResponses :
                     request = ExtractionOf(first, m, person_api_session, resp)

C6_Witness ==
    /\ Classified
    /\ FirstSatisfied(message[1]) = 2
    /\ SourceOf(message[1]).tags = Some(TagNames)
    /\ request.kind = "request"
    /\ request.alert = DUO_BYPASS_CODES_GENERATED

\* C8: when the events sequence of an alert of one of the four shapes is
\* missing or empty, classify returns none and does not fail.
C8_NoEventsGivesNone ==
    (/\ Classified
     /\ FirstSatisfied(message[1]) # 0
     /\ SourceOf(message[1]).events \in {<<>>, Some(<<>>)})
        => request.kind = "none"

\* C9: a request that classify returns carries one of the four labels and was
\* built only from an alert whose identifier is present and non-empty, with a
\* non-empty user (and, for the ssh shape, a non-empty hostname).
C9_RequestOnlyWhenComplete ==
    (Classified /\ request.kind = "request") =>
        /\ request.alert \in AlertLabel
        /\ message[1].id # <<>>
        /\ request.identifier # ""
        /\ request.user # ""
        /\ request.user # None
        /\ request.alert = SSH_ACCESS_SIGN_RELENG =>
               request.summary[2] \notin {"", "None"}

=============================================================================
